---- MODULE Spec2Model ----
(***************************************************************************)
(* The message service of netlify/functions/server.js: one SQLite table    *)
(* `messages` holding the row id 1, the one-time initialization            *)
(* (initializeDb) that every server process starts when it loads, and the  *)
(* GET and POST handlers of /api/message.  Several server processes may    *)
(* share the storage file /tmp/message.db.  Every storage call is split    *)
(* into the step in which SQLite executes the statement and the step in    *)
(* which its callback runs, and every storage call may fail.               *)
(* The page of public/index.html (the React components App and             *)
(* MessageInput) is the client: it issues the GET on mount and on Retry,   *)
(* the POST on submit, and handles the responses in any order.             *)
(***************************************************************************)
EXTENDS Naturals, Sequences, FiniteSets

\* ---------------------------------------------------------------- bounds
\* Longest newMessage string a request carries.
MaxLen == 2
\* Number of requests that may be in flight at once (slots are reused).
MaxInFlight == 2
\* Number of server processes sharing the storage file.
NumProcs == 2

Slots == 1..MaxInFlight
Procs == 1..NumProcs

\* ---------------------------------------------------------------- strings
\* A string is a sequence of characters; " " stands for the white space
\* String.prototype.trim removes.
Chars == {"a", " "}
Whitespace == {" "}
Strings == UNION {[1..n -> Chars] : n \in 0..MaxLen}

RECURSIVE TrimStart(_)
TrimStart(s) ==
    IF s # <<>> /\ Head(s) \in Whitespace THEN TrimStart(Tail(s)) ELSE s

RECURSIVE TrimEnd(_)
TrimEnd(s) ==
    IF s # <<>> /\ s[Len(s)] \in Whitespace
    THEN TrimEnd(SubSeq(s, 1, Len(s) - 1))
    ELSE s

\* s.trim()
Trim(s) == TrimEnd(TrimStart(s))

\* ---------------------------------------------------------------- JS values
Str(s) == [t |-> "string", s |-> s]
Null == [t |-> "null", s |-> <<>>]
Num == [t |-> "number", s |-> <<>>]
Undefined == [t |-> "undefined", s |-> <<>>]

\* typeof v
TypeOf(v) == IF v.t = "null" THEN "object" ELSE v.t

\* The values of req.body.newMessage: a string, null, a number, or missing.
Bodies == {Str(s) : s \in Strings} \cup {Null, Num, Undefined}

\* The text constants of the program, as character sequences.
DefaultMessage ==
    << "H","e","l","l","o"," ","F","u","l","l"," ",
       "S","t","a","c","k"," ","W","o","r","l","d","!" >>
UpdatedText ==
    << "M","e","s","s","a","g","e"," ","u","p","d","a","t","e","d"," ",
       "s","u","c","c","e","s","s","f","u","l","l","y" >>

\* ---------------------------------------------------------------- state
VARIABLES
    tableExists,  \* the table `messages` exists in the storage file
    messages,     \* the table: a function from row id to content
    initPc,       \* per process: where initializeDb stands
    initErr,      \* per process: the Error dbInitializationPromise rejected with
    req,          \* per slot: the request in flight in it
    lastWrite,    \* history: the write committed to the table last
    settled,      \* history: newMessage of the last POST answered 200 that no
                  \* other POST overlapped or followed
    loadedOver,   \* history, per process: the table when the process loaded
    message,      \* App: the message given to MessageDisplay
    loading,      \* App: a load is in progress
    error,        \* App: the failure shown, <<>> for null
    isUpdating,   \* App: an update is in progress
    inputValue,   \* MessageInput: the text in the input field
    wire,         \* per slot: the request the page sent that has not arrived
    succeeded,    \* history: a request of the page was answered with success
    overlap       \* history: a GET issued ("issued") and then answered
                  \* ("answered") while the page's last POST was in flight

serverVars == <<tableExists, messages, initPc, initErr, req, lastWrite, settled,
                loadedOver>>
pageVars == <<message, loading, error, isUpdating, inputValue, wire, succeeded,
              overlap>>
vars == <<serverVars, pageVars>>

\* ---------------------------------------------------------------- SQLite
\* The empty table.
EmptyTable == [i \in {} |-> <<>>]

\* SELECT COUNT(*) as count FROM messages
SqlCount(tbl) == Cardinality(DOMAIN tbl)

\* INSERT INTO messages (id, content) VALUES (id, content): a row with this
\* primary key makes the statement fail and leaves the table as it is.
SqlInsert(tbl, id, content) ==
    IF id \in DOMAIN tbl
    THEN [err |-> "SQLITE_CONSTRAINT: UNIQUE constraint failed: messages.id",
          table |-> tbl]
    ELSE [err |-> "",
          table |-> [i \in DOMAIN tbl \cup {id} |->
                        IF i = id THEN content ELSE tbl[i]]]

\* A faulty SqlInsertOrReplace: INSERT OR IGNORE keeps a row that exists.
SqlInsertOrIgnore(tbl, id, content) ==
    [i \in DOMAIN tbl \cup {id} |-> IF i \in DOMAIN tbl THEN tbl[i] ELSE content]

\* INSERT OR REPLACE INTO messages (id, content) VALUES (id, content)
SqlInsertOrReplace(tbl, id, content) ==
    [i \in DOMAIN tbl \cup {id} |-> IF i = id THEN content ELSE tbl[i]]

\* SELECT content FROM messages WHERE id = id: the row, or undefined.
SqlSelectContent(tbl, id) ==
    IF id \in DOMAIN tbl
    THEN [found |-> TRUE, content |-> tbl[id]]
    ELSE [found |-> FALSE, content |-> <<>>]

\* err.message of a storage call that fails for a reason of the medium.
IoError == "SQLITE_IOERR: disk I/O error"
\* err.message of a statement on a table that does not exist.
NoSuchTable == "SQLITE_ERROR: no such table: messages"

\* `new Error(error + ": " + cause)`; NoError while nothing was rejected.
InitError(failure, cause) == [error |-> failure, cause |-> cause]
NoError == InitError("", "")

NoWrite == [by |-> "none", value |-> Undefined]

\* ---------------------------------------------------------------- initializeDb
\* The module is loaded: line 96 calls initializeDb, which opens the database.
\* History: loadedOver records the table the process found.
Load(p) ==
    /\ initPc[p] = "off"
    /\ initPc' = [initPc EXCEPT ![p] = "open"]
    /\ loadedOver' = [loadedOver EXCEPT ![p] = messages]
    /\ UNCHANGED <<tableExists, messages, initErr, req, lastWrite, settled>>
    /\ UNCHANGED pageVars

\* The callback of new sqlite3.Database: reject, or issue CREATE TABLE.
OpenDb(p, fault) ==
    /\ initPc[p] = "open"
    /\ IF fault
       THEN /\ initPc' = [initPc EXCEPT ![p] = "rejected"]
            /\ initErr' = [initErr EXCEPT ![p] =
                    InitError("Failed to open database", IoError)]
       ELSE /\ initPc' = [initPc EXCEPT ![p] = "create"]
            /\ UNCHANGED initErr
    /\ UNCHANGED <<tableExists, messages, req, lastWrite, settled, loadedOver>>
    /\ UNCHANGED pageVars

\* CREATE TABLE IF NOT EXISTS messages and its callback: reject, or issue the
\* count query.
CreateTable(p, fault) ==
    /\ initPc[p] = "create"
    /\ IF fault
       THEN /\ initPc' = [initPc EXCEPT ![p] = "rejected"]
            /\ initErr' = [initErr EXCEPT ![p] =
                    InitError("Failed to create table", IoError)]
            /\ UNCHANGED tableExists
       ELSE /\ tableExists' = TRUE
            /\ initPc' = [initPc EXCEPT ![p] = "count"]
            /\ UNCHANGED initErr
    /\ UNCHANGED <<messages, req, lastWrite, settled, loadedOver>>
    /\ UNCHANGED pageVars

\* A faulty TableIsEmpty: the test is inverted.
TableIsEmptyInverted(count) == count # 0

\* row.count === 0
TableIsEmpty(count) == count = 0

\* SELECT COUNT(*) and its callback: reject, issue the default INSERT when
\* the table is empty, resolve otherwise.
CountMessages(p, fault) ==
    /\ initPc[p] = "count"
    /\ IF fault \/ ~tableExists
       THEN /\ initPc' = [initPc EXCEPT ![p] = "rejected"]
            /\ initErr' = [initErr EXCEPT ![p] =
                    InitError("Failed to check message count",
                              IF fault THEN IoError ELSE NoSuchTable)]
       ELSE /\ initPc' = [initPc EXCEPT ![p] =
                    IF TableIsEmpty(SqlCount(messages)) THEN "insert" ELSE "resolved"]
            /\ UNCHANGED initErr
    /\ UNCHANGED <<tableExists, messages, req, lastWrite, settled, loadedOver>>
    /\ UNCHANGED pageVars

\* A faulty InsertDefaultRow: the default is written with INSERT OR REPLACE.
InsertDefaultRowReplacing(tbl) ==
    [err |-> "", table |-> SqlInsertOrReplace(tbl, 1, DefaultMessage)]

\* The statement that inserts the default message.
InsertDefaultRow(tbl) == SqlInsert(tbl, 1, DefaultMessage)

\* INSERT of the default message and its callback: reject or resolve.
InsertDefault(p, fault) ==
    /\ initPc[p] = "insert"
    /\ LET r == InsertDefaultRow(messages) IN
       IF fault \/ ~tableExists \/ r.err # ""
       THEN /\ initPc' = [initPc EXCEPT ![p] = "rejected"]
            /\ initErr' = [initErr EXCEPT ![p] =
                    InitError("Failed to insert default message",
                              IF fault THEN IoError
                              ELSE IF ~tableExists THEN NoSuchTable ELSE r.err)]
            /\ UNCHANGED <<messages, lastWrite, loadedOver>>
       ELSE /\ messages' = r.table
            /\ lastWrite' = [by |-> "init", value |-> Str(DefaultMessage)]
            /\ initPc' = [initPc EXCEPT ![p] = "resolved"]
            /\ UNCHANGED initErr
    /\ UNCHANGED <<tableExists, req, settled, loadedOver>>
    /\ UNCHANGED pageVars

\* ---------------------------------------------------------------- requests
\* A faulty PromiseState: the handlers go on without awaiting the promise.
PromiseStateNoAwait(p) == "fulfilled"

\* `await dbInitializationPromise`: the state of the promise the await sees.
PromiseState(p) ==
    IF initPc[p] = "resolved" THEN "fulfilled"
    ELSE IF initPc[p] = "rejected" THEN "rejected"
    ELSE "pending"

\* What a request ended with: an HTTP response of the Express app, or the
\* exported handler's own promise rejecting (thrown # "").
Response(status, errorText, details, bodyStatus, messageText, updatedMessage) ==
    [kind |-> "http", status |-> status, error |-> errorText, details |-> details,
     bodyStatus |-> bodyStatus, message |-> messageText,
     updatedMessage |-> updatedMessage, thrown |-> ""]
NoResponse ==
    [kind |-> "none", status |-> 0, error |-> "", details |-> "",
     bodyStatus |-> "", message |-> Undefined, updatedMessage |-> Undefined,
     thrown |-> ""]
Thrown(e) == [NoResponse EXCEPT !.kind = "thrown", !.thrown = e]

\* No value recorded (history variables).
Unset == [t |-> "unset", s |-> <<>>]
NoRow == [found |-> FALSE, content |-> <<>>]

\* An empty slot.  Of a request in flight: pc is where its handler stands,
\* outcome, err and row are what its storage call came back with, resp is what
\* it was answered, sent the number of responses its handler has sent (calls
\* of res.json).  History: saw is the last committed write when its storage
\* call executed, expect the value of `settled` when a GET arrived (unset by a
\* later POST), alone that no other POST was in flight with a POST.
Idle ==
    [pc |-> "idle", proc |-> 0, method |-> "", newMessage |-> Undefined,
     outcome |-> "none", err |-> "", row |-> NoRow, resp |-> NoResponse,
     sent |-> 0, early |-> FALSE, saw |-> NoWrite, expect |-> Unset, alone |-> FALSE]

InFlight(r) == req[r].pc \notin {"idle", "done"}
PostInFlight(r) == InFlight(r) /\ req[r].method = "POST"

\* A request reaches a loaded process: module.exports.handler is invoked.
\* History: `early` records that the initialization was still running; a
\* POST that arrives overlaps every request in flight and follows the POST
\* recorded in `settled`.
Arrive(r, p, method, body) ==
    /\ req[r].pc = "idle"
    /\ initPc[p] # "off"
    /\ method = "GET" => body = Undefined
    /\ req' = [q \in Slots |->
                 IF q = r
                 THEN [Idle EXCEPT !.pc = "handler", !.proc = p,
                                   !.method = method, !.newMessage = body,
                                   !.early = initPc[p] \notin {"resolved", "rejected"},
                                   !.expect = IF method = "GET" THEN settled ELSE Unset,
                                   !.alone = method = "POST"
                                             /\ \A o \in Slots : ~PostInFlight(o)]
                 ELSE IF method = "POST" /\ InFlight(q)
                      THEN [req[q] EXCEPT !.expect = Unset, !.alone = FALSE]
                      ELSE req[q]]
    /\ settled' = IF method = "POST" THEN Unset ELSE settled
    /\ UNCHANGED <<tableExists, messages, initPc, initErr, lastWrite, loadedOver>>

\* module.exports.handler, lines 205-213: await the initialization, then hand
\* the event to the Express app.  A rejected promise makes the await throw,
\* so the handler's own promise rejects and the app is never entered.
Handler(r) ==
    /\ req[r].pc = "handler"
    /\ PromiseState(req[r].proc) # "pending"
    /\ req' = [req EXCEPT ![r] =
                 IF PromiseState(req[r].proc) = "rejected"
                 THEN [@ EXCEPT !.pc = "done",
                                !.resp = Thrown(initErr[req[r].proc].error)]
                 ELSE [@ EXCEPT !.pc = "route"]]
    /\ UNCHANGED <<tableExists, messages, initPc, initErr, lastWrite, settled, loadedOver>>
    /\ UNCHANGED pageVars

\* app.get, lines 106-112 and 135-142: await the initialization (the catch
\* answers 500 when it was rejected), then issue the SELECT.
RouteGet(r) ==
    /\ req[r].pc = "route"
    /\ req[r].method = "GET"
    /\ PromiseState(req[r].proc) # "pending"
    /\ req' = [req EXCEPT ![r] =
                 IF PromiseState(req[r].proc) = "rejected"
                 THEN [@ EXCEPT !.pc = "done", !.sent = @ + 1,
                                !.resp = Response(500, "Failed to retrieve message",
                                                  initErr[req[r].proc].error, "",
                                                  Undefined, Undefined)]
                 ELSE [@ EXCEPT !.pc = "query"]]
    /\ UNCHANGED <<tableExists, messages, initPc, initErr, lastWrite, settled, loadedOver>>
    /\ UNCHANGED pageVars

\* A faulty ExecGet: the read puts the default message back into the table.
ExecGetResetting(r, fault) ==
    /\ req[r].pc = "query"
    /\ req[r].method = "GET"
    /\ req' = [req EXCEPT ![r] =
                 [@ EXCEPT !.pc = "callback", !.outcome = "ok",
                           !.row = SqlSelectContent(messages, 1),
                           !.saw = lastWrite]]
    /\ messages' = SqlInsertOrReplace(messages, 1, DefaultMessage)
    /\ UNCHANGED <<tableExists, initPc, initErr, lastWrite, settled, loadedOver>>
    /\ UNCHANGED pageVars

\* SQLite executes SELECT content FROM messages WHERE id = 1.
ExecGet(r, fault) ==
    /\ req[r].pc = "query"
    /\ req[r].method = "GET"
    /\ req' = [req EXCEPT ![r] =
                 IF fault \/ ~tableExists
                 THEN [@ EXCEPT !.pc = "callback", !.outcome = "error",
                                !.err = IF fault THEN IoError ELSE NoSuchTable,
                                !.saw = lastWrite]
                 ELSE [@ EXCEPT !.pc = "callback", !.outcome = "ok",
                                !.row = SqlSelectContent(messages, 1),
                                !.saw = lastWrite]]
    /\ UNCHANGED <<tableExists, messages, initPc, initErr, lastWrite, settled, loadedOver>>
    /\ UNCHANGED pageVars

\* The callback of db.get, lines 112-134.
GetResponse(err, row) ==
    IF err # ""
    THEN Response(500, "Failed to retrieve message", err, "", Undefined, Undefined)
    ELSE IF row.found
    THEN Response(200, "", "", "", Str(row.content), Undefined)
    ELSE Response(404, "Message not found",
                  "No message found with ID 1. Database might be uninitialized or corrupted.",
                  "", Undefined, Undefined)

\* A faulty CallbackGet: the branch of the error does not return, so the
\* callback goes on to answer 404 for the row it did not get.
CallbackGetNoReturn(r) ==
    /\ req[r].pc = "callback"
    /\ req[r].method = "GET"
    /\ req' = [req EXCEPT ![r] =
                 [@ EXCEPT !.pc = "done",
                           !.sent = IF req[r].err # "" THEN @ + 2 ELSE @ + 1,
                           !.resp = GetResponse(req[r].err, req[r].row)]]
    /\ UNCHANGED <<tableExists, messages, initPc, initErr, lastWrite, settled, loadedOver>>
    /\ UNCHANGED pageVars

\* The callback runs and answers the request: one res.json on every path.
CallbackGet(r) ==
    /\ req[r].pc = "callback"
    /\ req[r].method = "GET"
    /\ req' = [req EXCEPT ![r] =
                 [@ EXCEPT !.pc = "done", !.sent = @ + 1,
                           !.resp = GetResponse(req[r].err, req[r].row)]]
    /\ UNCHANGED <<tableExists, messages, initPc, initErr, lastWrite, settled, loadedOver>>
    /\ UNCHANGED pageVars

\* A faulty Invalid: the length is tested without trimming.
InvalidNoTrim(newMessage) ==
    TypeOf(newMessage) # "string" \/ Len(newMessage.s) = 0

\* typeof newMessage !== 'string' || newMessage.trim().length === 0
Invalid(newMessage) ==
    TypeOf(newMessage) # "string" \/ Len(Trim(newMessage.s)) = 0

\* A faulty WriteParam: the statement is given newMessage as received.
WriteParamRaw(newMessage) == newMessage.s

\* The parameter bound to content in the POST's statement: newMessage.trim()
WriteParam(newMessage) == Trim(newMessage.s)

\* updatedMessage of the POST's 200 response: newMessage.trim()
UpdatedMessage(newMessage) == Str(Trim(newMessage.s))

\* app.post, lines 152-172 and 189-196: await the initialization (the catch
\* answers 500 when it was rejected), validate, then issue the INSERT OR
\* REPLACE.
RoutePost(r) ==
    /\ req[r].pc = "route"
    /\ req[r].method = "POST"
    /\ PromiseState(req[r].proc) # "pending"
    /\ req' = [req EXCEPT ![r] =
                 IF PromiseState(req[r].proc) = "rejected"
                 THEN [@ EXCEPT !.pc = "done", !.sent = @ + 1,
                                !.resp = Response(500, "Failed to update message",
                                                  initErr[req[r].proc].error, "",
                                                  Undefined, Undefined)]
                 ELSE IF Invalid(req[r].newMessage)
                 THEN [@ EXCEPT !.pc = "done", !.sent = @ + 1,
                                !.resp = Response(400, "Bad Request",
                                    "newMessage is required and must be a non-empty string.",
                                    "", Undefined, Undefined)]
                 ELSE [@ EXCEPT !.pc = "query"]]
    /\ UNCHANGED <<tableExists, messages, initPc, initErr, lastWrite, settled, loadedOver>>
    /\ UNCHANGED pageVars

\* SQLite executes INSERT OR REPLACE INTO messages (id, content) VALUES (1, ?).
ExecPost(r, fault) ==
    /\ req[r].pc = "query"
    /\ req[r].method = "POST"
    /\ IF fault \/ ~tableExists
       THEN /\ req' = [req EXCEPT ![r] =
                         [@ EXCEPT !.pc = "callback", !.outcome = "error",
                                   !.err = IF fault THEN IoError ELSE NoSuchTable]]
            /\ UNCHANGED <<messages, lastWrite, loadedOver>>
       ELSE /\ messages' = SqlInsertOrReplace(messages, 1,
                                              WriteParam(req[r].newMessage))
            /\ lastWrite' = [by |-> "post", value |-> req[r].newMessage]
            /\ req' = [req EXCEPT ![r] =
                         [@ EXCEPT !.pc = "callback", !.outcome = "ok"]]
    /\ UNCHANGED <<tableExists, initPc, initErr, settled, loadedOver>>
    /\ UNCHANGED pageVars

\* The callback of db.run, lines 172-188.
PostResponse(err, newMessage) ==
    IF err # ""
    THEN Response(500, "Failed to update message", err, "", Undefined, Undefined)
    ELSE Response(200, "", "", "success", Str(UpdatedText),
                  UpdatedMessage(newMessage))

CallbackPost(r) ==
    /\ req[r].pc = "callback"
    /\ req[r].method = "POST"
    /\ req' = [req EXCEPT ![r] =
                 [@ EXCEPT !.pc = "done", !.sent = @ + 1,
                           !.resp = PostResponse(req[r].err, req[r].newMessage)]]
    /\ settled' = IF req[r].err = "" /\ req[r].alone
                  THEN req[r].newMessage
                  ELSE settled
    /\ UNCHANGED <<tableExists, messages, initPc, initErr, lastWrite, loadedOver>>
    /\ UNCHANGED pageVars

\* The response has left the process: the slot is free again.
Complete(r) ==
    /\ req[r].pc = "done"
    /\ req' = [req EXCEPT ![r] = Idle]
    /\ UNCHANGED <<tableExists, messages, initPc, initErr, lastWrite, settled, loadedOver>>

\* ---------------------------------------------------------------- page
\* The text constants of the page.
LoadFailed == "Failed to load message"
UpdateFailed == "Failed to update message"
HttpError == "HTTP error! Status"
JsonError == "Unexpected token"
FailedToFetch == "Failed to fetch"
NoMessageLoaded == <<"No message loaded.">>
LoadingMessage == <<"Loading message...">>
SendingUpdate == <<"Sending update...">>

\* A JS string used as a condition: true when it is not empty (null is <<>>).
Truthy(s) == s # <<>>

\* What fetch puts on the wire.
NoRequest == [method |-> "", body |-> Undefined]
GetRequest == [method |-> "GET", body |-> Undefined]
PostRequest(newMessage) == [method |-> "POST", body |-> Str(newMessage)]

\* The requests of the page that are in flight: sent and not arrived, or
\* arrived and not answered to the page.
Out(method) ==
    {r \in Slots : \/ wire[r].method = method
                   \/ req[r].pc # "idle" /\ req[r].method = method}
GetsOut == Out("GET")
PostsOut == Out("POST")

\* fetch(MESSAGE_ENDPOINT, ...): the request goes on the wire, in the lowest
\* slot that holds no request.
Free(r) == req[r].pc = "idle" /\ wire[r] = NoRequest
Fetch(request) ==
    \E r \in Slots :
        /\ Free(r)
        /\ \A q \in Slots : q < r => ~Free(q)
        /\ wire' = [wire EXCEPT ![r] = request]

\* What the page shows, lines 211-238: the loading text, or the alert with
\* the error and the Retry button, or MessageDisplay; and the status line of
\* an update.
Visible ==
    (IF loading THEN {[el |-> "loading", text |-> LoadingMessage]}
     ELSE IF Truthy(error) THEN {[el |-> "alert", text |-> error]}
     ELSE {[el |-> "message",
            text |-> IF Truthy(message) THEN message ELSE NoMessageLoaded]})
    \cup
    (IF isUpdating /\ ~Truthy(error)
     THEN {[el |-> "status", text |-> SendingUpdate]}
     ELSE {})

\* A faulty RetryShown: the alert is rendered while a load is in progress too.
RetryShownWhileLoading == Truthy(error)

\* The Retry button is rendered, lines 212-225.
RetryShown == ~loading /\ Truthy(error)

\* fetchMessage, lines 141-150: up to the fetch.
FetchMessage ==
    /\ loading' = TRUE
    /\ error' = <<>>
    /\ Fetch(GetRequest)
    /\ overlap' = IF PostsOut # {} THEN "issued" ELSE overlap
    /\ UNCHANGED <<message, isUpdating, inputValue, succeeded>>

\* A click on Retry, line 219.
Retry ==
    /\ RetryShown
    /\ FetchMessage
    /\ UNCHANGED serverVars

\* A faulty InputEnabled: the input controls are never disabled.
InputEnabledAlways == TRUE

\* The input field takes events, line 110: disabled={isLoading}.
InputEnabled == ~isUpdating

\* handleChange, lines 78-80.
HandleChange(value) ==
    /\ InputEnabled
    /\ value # inputValue
    /\ inputValue' = value
    /\ UNCHANGED <<message, loading, error, isUpdating, wire, succeeded, overlap>>
    /\ UNCHANGED serverVars

\* handleUpdateMessage, lines 171-181: up to the fetch.
HandleUpdateMessage(newMessage) ==
    /\ isUpdating' = TRUE
    /\ error' = <<>>
    /\ Fetch(PostRequest(newMessage))
    /\ overlap' = "none"
    /\ UNCHANGED <<message, loading, succeeded>>

\* A faulty Submittable: the input is tested without trimming.
SubmittableNoTrim(value) == Truthy(value)

\* if (inputValue.trim()), line 84.
Submittable(value) == Truthy(Trim(value))

\* handleSubmit, lines 83-88: a click on the button (enabled only when the
\* input is submittable, line 115) or the Enter key in the input field.
HandleSubmit ==
    /\ InputEnabled
    /\ IF Submittable(inputValue)
       THEN /\ HandleUpdateMessage(Trim(inputValue))
            /\ inputValue' = <<>>
       ELSE UNCHANGED pageVars
    /\ UNCHANGED serverVars

\* response.ok
Ok(resp) == resp.kind = "http" /\ resp.status \in 200..299

\* err.message of a response that is not ok, lines 152-155: the error of the
\* body, or the status; a request the exported handler failed is answered by
\* the platform, with a body that has no error or that is not JSON.
FailureMessages(resp) ==
    IF resp.kind = "http"
    THEN {IF resp.error # "" THEN resp.error ELSE HttpError}
    ELSE {HttpError, JsonError}

\* fetchMessage, lines 152-164: from the response (or the rejection) on.
FetchMessageSettles(ok, data, cause) ==
    /\ IF ok
       THEN message' = data /\ UNCHANGED error
       ELSE error' = <<LoadFailed, cause>> /\ UNCHANGED message
    /\ loading' = FALSE
    /\ succeeded' = (succeeded \/ ok)
    /\ overlap' = IF overlap = "issued" /\ PostsOut # {} THEN "answered"
                  ELSE overlap
    /\ UNCHANGED <<isUpdating, inputValue>>

\* A faulty HandleUpdateMessageSettles: the answer's updatedMessage is not
\* taken.
HandleUpdateMessageSettlesKeeping(ok, data, cause) ==
    /\ IF ok
       THEN UNCHANGED <<message, error>>
       ELSE error' = <<UpdateFailed, cause>> /\ UNCHANGED message
    /\ isUpdating' = FALSE
    /\ succeeded' = (succeeded \/ ok)
    /\ UNCHANGED <<loading, inputValue, overlap>>

\* handleUpdateMessage, lines 183-197: from the response (or the rejection) on.
HandleUpdateMessageSettles(ok, data, cause) ==
    /\ IF ok
       THEN message' = data /\ UNCHANGED error
       ELSE error' = <<UpdateFailed, cause>> /\ UNCHANGED message
    /\ isUpdating' = FALSE
    /\ succeeded' = (succeeded \/ ok)
    /\ UNCHANGED <<loading, inputValue, overlap>>

\* A request of the page arrives at the server process.
Reach(r) ==
    /\ wire[r] # NoRequest
    /\ Arrive(r, 1, wire[r].method, wire[r].body)
    /\ wire' = [wire EXCEPT ![r] = NoRequest]
    /\ UNCHANGED <<message, loading, error, isUpdating, inputValue, succeeded,
                   overlap>>

\* The fetch rejects: the request is lost on the wire.
FetchRejects(r) ==
    /\ wire[r] # NoRequest
    /\ wire' = [wire EXCEPT ![r] = NoRequest]
    /\ IF wire[r].method = "GET"
       THEN FetchMessageSettles(FALSE, <<>>, FailedToFetch)
       ELSE HandleUpdateMessageSettles(FALSE, <<>>, FailedToFetch)
    /\ UNCHANGED serverVars

\* The answer to a request reaches the page: the fetch resolves and the body
\* is read.
Receive(r) ==
    /\ req[r].pc = "done"
    /\ Complete(r)
    /\ LET resp == req[r].resp IN
       \E cause \in (IF Ok(resp) THEN {""} ELSE FailureMessages(resp)) :
          IF req[r].method = "GET"
          THEN FetchMessageSettles(Ok(resp), resp.message.s, cause)
          ELSE HandleUpdateMessageSettles(Ok(resp), resp.updatedMessage.s, cause)
    /\ UNCHANGED wire

\* ---------------------------------------------------------------- specification
\* The page after its first render and its mount effect, lines 132-135 and
\* 200-203: fetchMessage has run up to the fetch.
InitPage ==
    /\ message = <<>>
    /\ loading = TRUE
    /\ error = <<>>
    /\ isUpdating = FALSE
    /\ inputValue = <<>>
    /\ wire = [r \in Slots |-> IF r = 1 THEN GetRequest ELSE NoRequest]
    /\ succeeded = FALSE
    /\ overlap = "none"

\* A fresh storage file, no process loaded, no request arrived; the page has
\* just been opened.
Init ==
    /\ tableExists = FALSE
    /\ messages = EmptyTable
    /\ initPc = [p \in Procs |-> "off"]
    /\ initErr = [p \in Procs |-> NoError]
    /\ req = [r \in Slots |-> Idle]
    /\ lastWrite = NoWrite
    /\ settled = Unset
    /\ loadedOver = [p \in Procs |-> EmptyTable]
    /\ InitPage

\* The shape of the state.
TypeOK ==
    /\ tableExists \in BOOLEAN
    /\ DOMAIN messages \subseteq {1}
    /\ \A i \in DOMAIN messages :
          messages[i] \in {DefaultMessage} \cup {Trim(s) : s \in Strings}
    /\ initPc \in [Procs -> {"off", "open", "create", "count", "insert",
                              "resolved", "rejected"}]
    /\ \A p \in Procs : (initErr[p] = NoError) = (initPc[p] # "rejected")
    /\ \A r \in Slots :
          /\ req[r].pc \in {"idle", "handler", "route", "query", "callback", "done"}
          /\ req[r].pc = "idle" => req[r] = Idle
          /\ req[r].pc # "idle" =>
                /\ req[r].proc \in Procs
                /\ req[r].method \in {"GET", "POST"}
                /\ req[r].newMessage \in Bodies
          /\ req[r].outcome \in {"none", "ok", "error"}
          /\ (req[r].err # "") = (req[r].outcome = "error")
          /\ (req[r].resp.kind = "none") = (req[r].pc # "done")
          /\ req[r].resp.status \in {0, 200, 400, 404, 500}
          /\ req[r].sent \in Nat
    /\ lastWrite.by \in {"none", "init", "post"}
    /\ settled \in Bodies \cup {Unset}
    /\ \A p \in Procs : DOMAIN loadedOver[p] \subseteq {1}
    /\ message \in {<<>>, DefaultMessage} \cup {Trim(s) : s \in Strings}
    /\ loading \in BOOLEAN
    /\ error \in {<<>>} \cup ({LoadFailed, UpdateFailed} \X
                               {"Failed to retrieve message", "Failed to update message",
                                "Message not found", "Bad Request",
                                HttpError, JsonError, FailedToFetch})
    /\ isUpdating \in BOOLEAN
    /\ inputValue \in Strings
    /\ wire \in [Slots -> {NoRequest, GetRequest}
                            \cup {PostRequest(s) : s \in Strings}]
    /\ succeeded \in BOOLEAN
    /\ overlap \in {"none", "issued", "answered"}

\* The steps the server processes P take by themselves, on the requests in
\* the slots S.
ServerSteps(P, S) ==
    \/ \E p \in P : Load(p)
    \/ \E p \in P, fault \in BOOLEAN : OpenDb(p, fault)
    \/ \E p \in P, fault \in BOOLEAN : CreateTable(p, fault)
    \/ \E p \in P, fault \in BOOLEAN : CountMessages(p, fault)
    \/ \E p \in P, fault \in BOOLEAN : InsertDefault(p, fault)
    \/ \E r \in S : Handler(r)
    \/ \E r \in S : RouteGet(r)
    \/ \E r \in S, fault \in BOOLEAN : ExecGet(r, fault)
    \/ \E r \in S : CallbackGet(r)
    \/ \E r \in S : RoutePost(r)
    \/ \E r \in S, fault \in BOOLEAN : ExecPost(r, fault)
    \/ \E r \in S : CallbackPost(r)

\* The steps of the server processes P and of the requests they serve in the
\* slots S, the requests coming from anywhere and the page standing still.
ServerNext(P, S) ==
    \/ ServerSteps(P, S)
    \/ \E r \in S, p \in P :
          Arrive(r, p, "GET", Undefined) /\ UNCHANGED pageVars
    \/ \E r \in S, p \in P, body \in Bodies :
          Arrive(r, p, "POST", body) /\ UNCHANGED pageVars
    \/ \E r \in S : Complete(r) /\ UNCHANGED pageVars

\* One server process over its own storage file: the deployed function.
Next == ServerNext({1}, Slots)
Spec == Init /\ [][Next]_vars

\* Several server processes over one storage file (a cold start beside a
\* running process, a restart on a file an earlier process wrote), serving
\* one request at a time.
NextShared == ServerNext(Procs, {1})
SpecShared == Init /\ [][NextShared]_vars

\* The steps of initializeDb of process p after the load, and the steps of
\* the handler of the request in slot r after its arrival: the storage calls
\* and their callbacks, and the continuations of the awaits.
InitSteps(p) ==
    \E fault \in BOOLEAN :
        \/ OpenDb(p, fault)
        \/ CreateTable(p, fault)
        \/ CountMessages(p, fault)
        \/ InsertDefault(p, fault)
RequestSteps(r) ==
    \/ Handler(r)
    \/ RouteGet(r)
    \/ \E fault \in BOOLEAN : ExecGet(r, fault)
    \/ CallbackGet(r)
    \/ RoutePost(r)
    \/ \E fault \in BOOLEAN : ExecPost(r, fault)
    \/ CallbackPost(r)

\* The deployed function when every storage call executes and every callback
\* and continuation that can run does run.
SpecLive ==
    /\ Init /\ [][Next]_vars
    /\ WF_vars(InitSteps(1))
    /\ \A r \in Slots : WF_vars(RequestSteps(r))

\* The page and the one server process it talks to: every request is a
\* request of the page, and every answer goes to the page.
NextClient ==
    \/ ServerSteps({1}, Slots)
    \/ \E value \in Strings : HandleChange(value)
    \/ HandleSubmit
    \/ Retry
    \/ \E r \in Slots : Reach(r)
    \/ \E r \in Slots : FetchRejects(r)
    \/ \E r \in Slots : Receive(r)
SpecClient == Init /\ [][NextClient]_vars

\* ---------------------------------------------------------------- claims
Done(r) == req[r].pc = "done"
IsGet(r) == req[r].method = "GET"
IsPost(r) == req[r].method = "POST"

\* A value that is a string with something other than white space in it.
NonBlankText(v) == v.t = "string" /\ Trim(v.s) # <<>>

\* C1: in one server process a request's storage call is issued, executed
\* and called back only when the initialization promise of its process has
\* resolved, whatever the interleaving of its arrival with the steps of the
\* initialization.
C1_InitBeforeStore ==
    \A r \in Slots :
        (req[r].pc \in {"query", "callback"} \/ req[r].outcome # "none")
            => initPc[req[r].proc] = "resolved"

\* A request that arrived while the initialization was running has executed
\* its storage call.
C1_Witness ==
    \E r \in Slots : req[r].early /\ req[r].outcome = "ok"

\* C2 as stated: a GET whose read follows the committed write of a POST of
\* s, with no write in between, is answered 200 with message trim(s), and a
\* POST answered 200 carries updatedMessage trim(s).
C2_RoundTripAlways ==
    /\ \A r \in Slots :
          Done(r) /\ IsGet(r) /\ req[r].saw.by = "post"
              => /\ req[r].resp.status = 200
                 /\ req[r].resp.message = Str(Trim(req[r].saw.value.s))
    /\ \A r \in Slots :
          Done(r) /\ IsPost(r) /\ req[r].resp.status = 200
              => req[r].resp.updatedMessage = Str(Trim(req[r].newMessage.s))

\* C2 amended: such a GET is answered 200 with message trim(s) when its own
\* read succeeds and 500 when its read fails; a POST answered 200 carries
\* updatedMessage trim(s).
C2_RoundTrip ==
    /\ \A r \in Slots :
          Done(r) /\ IsGet(r) /\ req[r].saw.by = "post"
              => /\ req[r].outcome = "ok" =>
                      /\ req[r].resp.status = 200
                      /\ req[r].resp.message = Str(Trim(req[r].saw.value.s))
                 /\ req[r].outcome = "error" => req[r].resp.status = 500
    /\ \A r \in Slots :
          Done(r) /\ IsPost(r) /\ req[r].resp.status = 200
              => req[r].resp.updatedMessage = Str(Trim(req[r].newMessage.s))

\* A GET has returned trim(s) of a POST whose s had white space to trim.
C2_Witness ==
    \E r \in Slots :
        /\ Done(r) /\ IsGet(r) /\ req[r].saw.by = "post"
        /\ req[r].saw.value.s # Trim(req[r].saw.value.s)
        /\ req[r].resp.status = 200
        /\ req[r].resp.message = Str(Trim(req[r].saw.value.s))

\* C3 as stated: a POST whose newMessage is not a string with something
\* other than white space in it is always answered 400 "Bad Request", and it
\* issues no write.
C3_InvalidAlways400 ==
    \A r \in Slots :
        IsPost(r) /\ ~NonBlankText(req[r].newMessage)
            => /\ req[r].pc \notin {"query", "callback"}
               /\ req[r].outcome = "none"
               /\ Done(r) => /\ req[r].resp.status = 400
                             /\ req[r].resp.error = "Bad Request"

\* C3 amended: such a POST issues no write in any case; it is answered 400
\* "Bad Request" when the initialization of its process succeeded, and when
\* the initialization failed the request fails with the initialization's
\* error before the validation is reached.
C3_InvalidRejected ==
    \A r \in Slots :
        IsPost(r) /\ ~NonBlankText(req[r].newMessage)
            => /\ req[r].pc \notin {"query", "callback"}
               /\ req[r].outcome = "none"
               /\ Done(r) =>
                    IF initPc[req[r].proc] = "resolved"
                    THEN /\ req[r].resp.status = 400
                         /\ req[r].resp.error = "Bad Request"
                    ELSE /\ req[r].resp.status \notin {200, 400}
                         /\ initErr[req[r].proc].error
                                \in {req[r].resp.thrown, req[r].resp.details}

\* A POST of a white-space-only string was answered 400 over a stored message.
C3_Witness ==
    \E r \in Slots :
        /\ Done(r) /\ IsPost(r)
        /\ req[r].newMessage.t = "string" /\ req[r].newMessage.s # <<>>
        /\ Trim(req[r].newMessage.s) = <<>>
        /\ req[r].resp.status = 400
        /\ 1 \in DOMAIN messages

\* C4: once the initialization of a process has succeeded the table holds
\* exactly the row id 1, and its content has something other than white
\* space in it.
C4_StoreInvariant ==
    (\E p \in Procs : initPc[p] = "resolved")
        => /\ DOMAIN messages = {1}
           /\ Trim(messages[1]) # <<>>

\* A POST has replaced the message while another request is in flight.
C4_Witness ==
    /\ \E p \in Procs : initPc[p] = "resolved"
    /\ lastWrite.by = "post"
    /\ \E r \in Slots : InFlight(r)

\* C5 as stated: a request that met a storage failure (its own storage call
\* failed, or the initialization of its process was rejected) is answered
\* with an HTTP 500 whose body has error and details.
C5_StoreFailureIs500 ==
    \A r \in Slots :
        Done(r) /\ (req[r].outcome = "error" \/ initPc[req[r].proc] = "rejected")
            => /\ req[r].resp.kind = "http"
               /\ req[r].resp.status = 500
               /\ req[r].resp.error # ""
               /\ req[r].resp.details # ""

\* C6: a step of initializeDb leaves a message that is stored as it is, and
\* the only change it ever makes to the table is to insert the default
\* message into the empty table.
C6_InitKeepsMessage ==
    [][initPc' # initPc =>
          IF 1 \in DOMAIN messages
          THEN messages' = messages
          ELSE messages' \in {messages, [i \in {1} |-> DefaultMessage]}]_vars

\* A process loaded over a message a POST had stored, its initialization
\* has resolved, and the message is still that one.
C6_Witness ==
    \E p \in Procs :
        /\ initPc[p] = "resolved"
        /\ 1 \in DOMAIN loadedOver[p]
        /\ loadedOver[p][1] # DefaultMessage
        /\ messages = loadedOver[p]

\* C7 as stated: an execution of initializeDb that overlaps another on the
\* same storage completes without error, so an initialization is rejected
\* only by a failure of the medium.
C7_OverlappingInitSucceeds ==
    \A p \in Procs : initPc[p] = "rejected" => initErr[p].cause = IoError

\* C8 as stated: a GET that arrives after a POST was answered 200, no other
\* POST having overlapped or followed that POST, is answered 200 with the
\* POST's trimmed value.
C8_ReadAfterWriteAlways ==
    \A r \in Slots :
        Done(r) /\ IsGet(r) /\ req[r].expect.t = "string"
            => /\ req[r].resp.status = 200
               /\ req[r].resp.message = Str(Trim(req[r].expect.s))

\* C8 amended: such a GET is answered 200 with the POST's trimmed value when
\* its own read succeeds, and 500 when its read fails.
C8_ReadAfterWrite ==
    \A r \in Slots :
        Done(r) /\ IsGet(r) /\ req[r].expect.t = "string"
            => /\ req[r].outcome = "ok" =>
                    /\ req[r].resp.status = 200
                    /\ req[r].resp.message = Str(Trim(req[r].expect.s))
               /\ req[r].outcome = "error" => req[r].resp.status = 500

\* POST A was answered 200, then POST B with another value was answered 200,
\* then a GET arrived and returned B.
C8_Witness ==
    \E a, g \in Slots :
        /\ Done(a) /\ IsPost(a) /\ req[a].alone /\ req[a].resp.status = 200
        /\ Done(g) /\ IsGet(g) /\ req[g].expect.t = "string"
        /\ Trim(req[g].expect.s) # Trim(req[a].newMessage.s)
        /\ req[g].resp.status = 200
        /\ req[g].resp.message = Str(Trim(req[g].expect.s))

\* C9: the stored message is the default message, or the trimmed newMessage
\* of the POST whose write was committed last, and that POST passed the
\* validation; this holds in every state, so also when all POSTs have been
\* answered.
C9_LastWriteWins ==
    1 \in DOMAIN messages
        => \/ lastWrite.by = "init" /\ messages[1] = DefaultMessage
           \/ /\ lastWrite.by = "post"
              /\ NonBlankText(lastWrite.value)
              /\ messages[1] = Trim(lastWrite.value.s)

\* Two POSTs with different values overlapped, both were answered 200, and
\* the stored message is the value of the one that was answered first.
C9_Witness ==
    \E a, b \in Slots :
        /\ Done(a) /\ IsPost(a) /\ req[a].resp.status = 200 /\ ~req[a].alone
        /\ Done(b) /\ IsPost(b) /\ req[b].resp.status = 200 /\ ~req[b].alone
        /\ Trim(req[a].newMessage.s) # Trim(req[b].newMessage.s)
        /\ settled = Unset
        /\ lastWrite.value = req[a].newMessage
        /\ messages[1] = Trim(req[a].newMessage.s)

\* C10 as stated: a GET that reads the store before any POST was committed
\* is answered 200 with the default message.
C10_DefaultAlways ==
    \A r \in Slots :
        Done(r) /\ IsGet(r) /\ req[r].outcome # "none" /\ req[r].saw.by # "post"
            => /\ req[r].resp.status = 200
               /\ req[r].resp.message = Str(DefaultMessage)

\* C10 amended: such a GET is answered 200 with the default message when its
\* own read succeeds, and 500 when its read fails.
C10_Default ==
    \A r \in Slots :
        Done(r) /\ IsGet(r) /\ req[r].outcome # "none" /\ req[r].saw.by # "post"
            => /\ req[r].outcome = "ok" =>
                    /\ req[r].resp.status = 200
                    /\ req[r].resp.message = Str(DefaultMessage)
               /\ req[r].outcome = "error" => req[r].resp.status = 500

\* A GET on the fresh store has returned the default message.
C10_Witness ==
    \E r \in Slots :
        /\ Done(r) /\ IsGet(r) /\ req[r].saw.by = "init"
        /\ req[r].resp.status = 200
        /\ req[r].resp.message = Str(DefaultMessage)

\* C11: a step of the handling of a GET, whatever the GET is answered, leaves
\* the table as it is; the table changes only in the write step of a POST
\* whose newMessage passed the validation, or in the insert of the default
\* message by the initialization.
C11_GetLeavesStore ==
    [][/\ \A r \in Slots :
             IsGet(r) /\ req'[r] # req[r] => messages' = messages
       /\ messages' # messages =>
             \/ \E r \in Slots :
                    /\ IsPost(r) /\ NonBlankText(req[r].newMessage)
                    /\ req[r].pc = "query" /\ req'[r].pc = "callback"
                    /\ messages' = [i \in {1} |-> Trim(req[r].newMessage.s)]
             \/ \E p \in Procs :
                    /\ initPc[p] = "insert" /\ initPc'[p] = "resolved"
                    /\ messages' = [i \in {1} |-> DefaultMessage]]_vars

\* After a POST replaced the message one GET was answered 200 and another
\* 500, and the table still holds the POST's message.
C11_Witness ==
    \E a, b \in Slots :
        /\ Done(a) /\ IsGet(a) /\ req[a].resp.status = 200
        /\ Done(b) /\ IsGet(b) /\ req[b].resp.status = 500
        /\ req[a].saw.by = "post" /\ req[b].saw = req[a].saw
        /\ messages = [i \in {1} |-> Trim(req[a].saw.value.s)]

\* C12: no GET is ever answered 404: once the initialization of a process
\* has succeeded the row id 1 is there in every state, and every read that
\* succeeds finds it.
C12_NoNotFound ==
    /\ (\E p \in Procs : initPc[p] = "resolved")
          => SqlSelectContent(messages, 1).found
    /\ \A r \in Slots :
          IsGet(r) => /\ req[r].outcome = "ok" => req[r].row.found
                      /\ req[r].resp.status # 404

\* A GET that arrived while the initialization was running was answered 200.
C12_Witness ==
    \E r \in Slots :
        /\ Done(r) /\ IsGet(r) /\ req[r].early
        /\ req[r].resp.status = 200

\* A step in which the page takes the answer to its request in slot r.
Answered(r) == req[r].pc = "done" /\ req'[r].pc = "idle"
\* A step in which the page's request in slot r ends in failure: an answer
\* that is not ok, or the fetch rejecting.
Fails(r) ==
    \/ Answered(r) /\ ~Ok(req[r].resp)
    \/ wire[r] # NoRequest /\ wire'[r] = NoRequest /\ req'[r].pc = "idle"
\* err.message of that failure.
FailureOf(r) ==
    IF req[r].pc = "done" THEN FailureMessages(req[r].resp) ELSE {FailedToFetch}
\* The method of the page's request in slot r.
MethodOf(r) == IF wire[r] # NoRequest THEN wire[r].method ELSE req[r].method
\* A step in which the page puts a request on the wire in slot r.
Issued(r) == wire[r] = NoRequest /\ wire'[r] # NoRequest

\* C13: in the step in which the page takes the 200 answer to its POST, the
\* message the page displays (the state given to MessageDisplay) becomes the
\* answer's updatedMessage and no GET is issued; a GET is issued only by a
\* click on Retry, which handles no answer and leaves the message and the
\* update as they are (the mount GET is issued in the initial state).
C13_UpdateSuccess ==
    [][/\ \A r \in Slots :
             Answered(r) /\ IsPost(r) /\ Ok(req[r].resp)
                 => /\ message' = req[r].resp.updatedMessage.s
                    /\ Truthy(message')
                    /\ \A q \in Slots : ~Issued(q)
       /\ \A r \in Slots :
             Issued(r) /\ wire'[r].method = "GET"
                 => /\ RetryShown
                    /\ req' = req
                    /\ message' = message /\ isUpdating' = isUpdating]_vars

\* The page displays the message of its POST, taken from the POST's answer:
\* the mount GET has not even arrived.
C13_Witness ==
    /\ wire[1] = GetRequest /\ loading /\ succeeded
    /\ PostsOut = {} /\ ~isUpdating
    /\ Truthy(message) /\ messages = [i \in {1} |-> message]

\* C14 as stated: in the step in which a GET or a POST of the page fails the
\* page shows the failure's message, and a message it showed before the step
\* is still shown after it.
C14_FailureKeepsDisplay ==
    [][\A r \in Slots :
          Fails(r)
              => /\ \E v \in Visible' :
                       v.el = "alert" /\ v.text[2] \in FailureOf(r)
                 /\ \A v \in Visible : v.el = "message" => v \in Visible']_vars

\* C15: a submit while the trimmed input is empty changes nothing, neither
\* in the page nor on the wire; a POST goes on the wire only with the
\* trimmed input of the submit as newMessage, and every POST of the page
\* carries a string that is trimmed and not empty.
C15_EmptySubmitRejected ==
    /\ [](\A r \in Slots :
             /\ wire[r].method = "POST"
                   => /\ NonBlankText(wire[r].body)
                      /\ Trim(wire[r].body.s) = wire[r].body.s
             /\ IsPost(r)
                   => /\ NonBlankText(req[r].newMessage)
                      /\ Trim(req[r].newMessage.s) = req[r].newMessage.s)
    /\ [][/\ HandleSubmit /\ ~Truthy(Trim(inputValue)) => UNCHANGED vars
          /\ \A r \in Slots :
                Issued(r) /\ wire'[r].method = "POST"
                    => /\ Truthy(Trim(inputValue))
                       /\ wire'[r].body = Str(Trim(inputValue))]_vars

\* The input holds white space only and takes a submit; a POST whose input
\* had white space to trim was stored before.
C15_Witness ==
    /\ inputValue = <<" ">> /\ InputEnabled
    /\ PostsOut = {}
    /\ lastWrite.by = "post" /\ messages = [i \in {1} |-> <<"a">>]

\* C16: while a POST of the page is in flight isUpdating is true and the
\* input takes no submit, so at most one POST is in flight; isUpdating is
\* false when no POST is in flight, however the POST ended; a Retry that is
\* shown while a POST is in flight can be clicked.
C16_UpdatingGate ==
    /\ Cardinality(PostsOut) <= 1
    /\ isUpdating = (PostsOut # {})
    /\ PostsOut # {} => ~InputEnabled /\ ~ENABLED HandleSubmit
    /\ PostsOut # {} /\ RetryShown => ENABLED Retry

\* While a POST is in flight a GET was issued by Retry and answered.
C16_Witness ==
    /\ PostsOut # {} /\ isUpdating
    /\ overlap = "answered"

\* C17: loading is true exactly when a GET of the page is in flight, and at
\* most one is; a GET that fails sets error and shows Retry, which can be
\* clicked; a request goes on the wire only in a step of the user that
\* handles no answer: a GET by a click on Retry, which leaves the POSTs as
\* they are, a POST by a submit of the input.
C17_LoadingAndRetry ==
    /\ [](/\ loading = (GetsOut # {})
          /\ Cardinality(GetsOut) <= 1
          /\ RetryShown => ENABLED Retry)
    /\ [][/\ \A r \in Slots :
                Fails(r) /\ MethodOf(r) = "GET"
                    => /\ error' = <<LoadFailed, error'[2]>>
                       /\ error'[2] \in FailureOf(r)
                       /\ RetryShown'
          /\ \A r \in Slots :
                Issued(r)
                    => /\ req' = req
                       /\ \A q \in Slots \ {r} : wire'[q] = wire[q]
                       /\ IF wire'[r].method = "GET"
                          THEN RetryShown /\ loading' /\ PostsOut' = PostsOut
                          ELSE InputEnabled /\ Submittable(inputValue)
                               /\ GetsOut' = GetsOut]_vars

\* After a GET had succeeded a GET issued by Retry failed: its error and
\* Retry are shown.
C17_Witness ==
    /\ message = DefaultMessage
    /\ RetryShown /\ error[1] = LoadFailed
    /\ GetsOut = {}

\* C18 as stated: when the page has no request in flight, no error set and
\* a request of it has succeeded, the message it displays is the stored one.
C18_AgreementAtQuiescence ==
    (GetsOut = {} /\ PostsOut = {} /\ ~Truthy(error) /\ succeeded)
        => message = SqlSelectContent(messages, 1).content

====
